---- MODULE Spec2Model ----
(***************************************************************************)
(* WindshaftMap (src/windshaft/map-base.js): the map-instantiation         *)
(* orchestrator.  createInstance builds a request, asks the request        *)
(* tracker whether it may be sent, hands it to the backend client, and the *)
(* client's success / error handlers reconcile the response into the       *)
(* model's attributes, the tracker and the model updater.                  *)
(*                                                                         *)
(* JavaScript objects are functions from key strings to values; a key that *)
(* is absent from the DOMAIN is an undefined property.                     *)
(***************************************************************************)
EXTENDS Integers, Sequences, FiniteSets, TLC

VARIABLES
    attrs,      \* Backbone attributes of the WindshaftMap model
    tracker,    \* records of the RequestTracker, oldest fingerprint first
    inflight,   \* requests handed to client.instantiateMap, not yet resolved
    updater,    \* the last call received by the model updater
    nextId,     \* number of createInstance calls made so far
    sent,       \* fingerprint -> number of instantiateMap calls made for it
    peak,       \* fingerprint -> largest number of its requests in flight at once
    evicted,    \* fingerprints whose tracker record was evicted at some time
    last,       \* what the handler that ran last did, in order
    answer      \* what was observed since the handler that ran last: a query
                \* and its result, or the inputs of that handler

vars == <<attrs, tracker, inflight, updater, nextId, sent, peak, evicted, last, answer>>

(***************************************************************************)
(* Bounds of the model.                                                    *)
(***************************************************************************)
MaxRequests == 3

MaxRepeats == 4

MaxBurst == 7
MaxParamsCalls == 2  \* createInstance calls made in SpecParams
MaxHostCalls == 2    \* createInstance calls made in SpecHost
MaxSyncCalls == 3    \* createInstance calls made in SpecSync
MaxFailureCalls == 4 \* createInstance calls made in SpecFailure

(***************************************************************************)
(* Program constants.                                                      *)
(***************************************************************************)
MAP_INSTANTIATION_LIMIT == 3

TRACKER_RECORD_CAP == 1

(***************************************************************************)
(* Generic helpers for JavaScript objects and sequences.                   *)
(***************************************************************************)
EmptyObject == [k \in {} |-> 0]

\* o[k] wrapped in a sequence: <<>> when the property is undefined
Prop(o, k) == IF k \in DOMAIN o THEN <<o[k]>> ELSE <<>>

\* _.extend(dst, src) and Backbone's set(attributes): the keys of src are
\* written over dst, every other key of dst is kept
Extend(dst, src) ==
    [k \in DOMAIN dst \cup DOMAIN src |-> IF k \in DOMAIN src THEN src[k] ELSE dst[k]]

\* an object without some of its keys
Without(o, keys) == [k \in DOMAIN o \ keys |-> o[k]]

Count(f, k) == IF k \in DOMAIN f THEN f[k] ELSE 0

Event(name, id) == [ev |-> name, req |-> id]

EventsNamed(events, name) == SelectSeq(events, LAMBDA e : e.ev = name)

Occurs(events, name) == Len(EventsNamed(events, name))

(***************************************************************************)
(* The environment: what the collaborators hand to the orchestrator.       *)
(***************************************************************************)
\* toJSON of the subclass: a map definition, or an exception
Payloads == {"mapA", "mapB"}

Returned(v) == [threw |-> FALSE, value |-> v]

Thrown(m) == [threw |-> TRUE, message |-> m]

ToJSONOutcomes == {Returned(p) : p \in Payloads} \cup {Thrown("toJSON failed")}

\* a dataview: no filter, or a filter with isEmpty() and toJSON()
NoFilterDataview == EmptyObject

EmptyFilterDataview == [filter |-> [empty |-> TRUE, json |-> Returned(EmptyObject)]]

FilterDataview(key, value) ==
    [filter |-> [empty |-> FALSE, json |-> Returned([k \in {key} |-> value])]]

ThrowingFilterDataview == [filter |-> [empty |-> FALSE, json |-> Thrown("filter failed")]]

DataviewCollections ==
    { <<NoFilterDataview, EmptyFilterDataview>>,
      <<ThrowingFilterDataview>> }

\* the options of a createInstance call; a callback is named by what it does
\* when it is called
OptionSet ==
    { [success |-> "returns", error |-> "returns", sourceId |-> "a1", forceFetch |-> TRUE],
      [success |-> "returns", error |-> "throws"],
      EmptyObject }

CallbackMessage == "callback failed"

\* responses of the backend
SuccessResponses ==
    { [layergroupid |-> "lg1", metadata |-> [layers |-> <<"l1">>],
       cdn_url |-> [http |-> "cdn1", https |-> "cdns1"]],
      [layergroupid |-> "lg2", metadata |-> [layers |-> <<"l2">>]] }

ErrorResponses ==
    { [errors_with_context |-> << [type |-> "layer", message |-> "ctx1"],
                                  [type |-> "unknown", message |-> "ctx2"] >>,
       errors |-> <<"a", "b">>],
      [errors |-> <<"a", "b">>],
      EmptyObject }

\* the client and the constructor attributes the model is built from
ClientAttrs ==
    [urlTemplate |-> <<"http", "://", "{user}", ".example.com">>,
     userName |-> "acme", statTag |-> "tag", apiKey |-> "key", authToken |-> "token"]

(***************************************************************************)
(* WindshaftError and the request fingerprint.                             *)
(***************************************************************************)
WindshaftError(error) ==
    [message |-> IF "message" \in DOMAIN error THEN <<error.message>> ELSE <<>>,
     context |-> [k \in DOMAIN error \ {"message"} |-> error[k]]]

Request(id, payload, params, options) ==
    [id |-> id, payload |-> payload, params |-> params, options |-> options]

Fingerprint(request) == [definition |-> request.payload, params |-> request.params]

(***************************************************************************)
(* RequestTracker.                                                         *)
(***************************************************************************)
RecordIndex(records, fp) ==
    LET hits == {i \in 1..Len(records) : records[i].fingerprint = fp}
    IN  IF hits = {} THEN 0 ELSE CHOOSE i \in hits : TRUE

OccurrenceCount(records, fp) ==
    IF RecordIndex(records, fp) = 0 THEN 0
    ELSE records[RecordIndex(records, fp)].occurrenceCount

canRequestBePerformed(records, request) ==
    OccurrenceCount(records, Fingerprint(request)) < MAP_INSTANTIATION_LIMIT

Recorded(records, request, response) ==
    LET fp == Fingerprint(request)
        i  == RecordIndex(records, fp)
    IN  IF i = 0
        THEN Append(records, [fingerprint |-> fp, occurrenceCount |-> 1,
                              lastResponse |-> response])
        ELSE [records EXCEPT ![i] = [fingerprint |-> fp,
                                     occurrenceCount |-> @.occurrenceCount + 1,
                                     lastResponse |-> response]]

track(records, request, response) ==
    LET r == Recorded(records, request, response)
    IN  IF Len(r) > TRACKER_RECORD_CAP THEN Tail(r) ELSE r

(***************************************************************************)
(* WindshaftMap: the synchronous helpers of createInstance.                *)
(***************************************************************************)
Truthy(o, k) == k \in DOMAIN o /\ o[k] # ""

\* params that carry every credential that is configured
_getParams_Both ==
    LET params == [stat_tag |-> Prop(attrs, "statTag")]
        keyed  == IF Truthy(attrs, "apiKey")
                  THEN Extend(params, [api_key |-> attrs["apiKey"]]) ELSE params
    IN  IF Truthy(attrs, "authToken")
        THEN Extend(keyed, [auth_token |-> attrs["authToken"]]) ELSE keyed

_getParams ==
    LET params == [stat_tag |-> Prop(attrs, "statTag")]
    IN  IF Truthy(attrs, "apiKey")
        THEN Extend(params, [api_key |-> attrs["apiKey"]])
        ELSE IF Truthy(attrs, "authToken")
             THEN Extend(params, [auth_token |-> attrs["authToken"]])
             ELSE params

\* the reduce over the dataviews collection; the result is the filters
\* object, or the exception of the first filter.toJSON() that throws
RECURSIVE ReduceDataviews(_, _)
ReduceDataviews(filters, dataviews) ==
    IF dataviews = <<>> THEN Returned(filters)
    ELSE LET dataview == Head(dataviews)
         IN  IF "filter" \in DOMAIN dataview /\ ~dataview.filter.empty
             THEN IF dataview.filter.json.threw
                  THEN dataview.filter.json
                  ELSE LET bucket == IF "dataviews" \in DOMAIN filters
                                     THEN filters["dataviews"] ELSE EmptyObject
                       IN  ReduceDataviews(
                               Extend(filters,
                                      [dataviews |-> Extend(bucket, dataview.filter.json.value)]),
                               Tail(dataviews))
             ELSE ReduceDataviews(filters, Tail(dataviews))

_getFilterParamFromDataviews(dataviews) == ReduceDataviews(EmptyObject, dataviews)

\* an error normalization that prefers the plain list of strings
_getErrorsFromResponse_PlainFirst(response) ==
    IF "errors" \in DOMAIN response
    THEN << WindshaftError(IF response.errors = << >> THEN EmptyObject
                           ELSE [message |-> response.errors[1]]) >>
    ELSE IF "errors_with_context" \in DOMAIN response
         THEN [i \in 1..Len(response.errors_with_context) |->
                   WindshaftError(response.errors_with_context[i])]
         ELSE << >>

\* a list held by the response is truthy, also when it is empty; the first
\* string of an empty list is undefined
_getErrorsFromResponse(response) ==
    IF "errors_with_context" \in DOMAIN response
    THEN [i \in 1..Len(response.errors_with_context) |->
              WindshaftError(response.errors_with_context[i])]
    ELSE IF "errors" \in DOMAIN response
         THEN << WindshaftError(IF response.errors = << >> THEN EmptyObject
                                ELSE [message |-> response.errors[1]]) >>
         ELSE << >>

(***************************************************************************)
(* WindshaftMap: the queries.  A string the code searches or rewrites (the *)
(* URL template) is the sequence of its tokens: a scheme at its start and  *)
(* every "{user}" are tokens of their own.                                 *)
(***************************************************************************)
MAPS_API_BASE_URL == "api/v1/map"

RECURSIVE Join(_, _)
\* Array.prototype.join
Join(parts, separator) ==
    IF parts = << >> THEN ""
    ELSE IF Len(parts) = 1 THEN Head(parts)
         ELSE Head(parts) \o separator \o Join(Tail(parts), separator)

RECURSIVE Replace(_, _, _)
\* String.prototype.replace with a string pattern: the first occurrence only
Replace(tokens, pattern, replacement) ==
    IF tokens = << >> THEN << >>
    ELSE IF Head(tokens) = pattern THEN <<replacement>> \o Tail(tokens)
         ELSE <<Head(tokens)>> \o Replace(Tail(tokens), pattern, replacement)

\* a host resolution that takes every template for plain http
_useHTTPS_Never == FALSE

_useHTTPS == attrs.urlTemplate # << >> /\ Head(attrs.urlTemplate) = "https"

\* a subhost argument is the sequence of the values passed: << >> is undefined
_getHost(subhost) ==
    LET userName == attrs.userName
        protocol == IF _useHTTPS THEN "https" ELSE "http"
        prefix   == IF subhost # << >> /\ subhost[1] # "" THEN subhost[1] \o "." ELSE ""
        host     == Join(Replace(attrs.urlTemplate, "{user}", userName), "")
        cdnHost  == IF "cdn_url" \in DOMAIN attrs
                    THEN Prop(attrs.cdn_url, protocol) ELSE << >>
    IN  IF cdnHost # << >> /\ cdnHost[1] # ""
        THEN Join(<<protocol, "://", prefix, cdnHost[1], "/", userName>>, "")
        ELSE host

getBaseURL(subhost) ==
    Join(<< _getHost(subhost),
            MAPS_API_BASE_URL,
            IF "layergroupid" \in DOMAIN attrs THEN attrs.layergroupid ELSE "" >>, "/")

\* subdomains that are dropped as soon as a CDN host map is held
getSupportedSubdomains_ByCdn ==
    IF ~_useHTTPS /\ "cdn_url" \notin DOMAIN attrs THEN <<"0", "1", "2", "3">> ELSE <<"">>

getSupportedSubdomains ==
    IF ~_useHTTPS THEN <<"0", "1", "2", "3">> ELSE <<"">>

_getLayers ==
    IF "metadata" \in DOMAIN attrs /\ "layers" \in DOMAIN attrs.metadata
    THEN attrs.metadata.layers ELSE << >>

\* an absent table is the empty array: no id is found in it
_getDataviews ==
    IF "metadata" \in DOMAIN attrs /\ "dataviews" \in DOMAIN attrs.metadata
    THEN attrs.metadata.dataviews ELSE EmptyObject

RECURSIVE ExtendAll(_, _)
\* _.each(objects, function (o) { _.extend(dst, o); })
ExtendAll(dst, objects) ==
    IF objects = << >> THEN dst
    ELSE ExtendAll(Extend(dst, Head(objects)), Tail(objects))

\* the widgets tables of the layers that have one, in layer order
LayersDataviews(layers) ==
    LET withWidgets == SelectSeq(layers, LAMBDA layer : "widgets" \in DOMAIN layer)
    IN  [i \in 1..Len(withWidgets) |-> withWidgets[i].widgets]

\* a lookup that asks the layers before the direct table
getDataviewMetadata_LayersFirst(dataviewId) ==
    LET dataviews == ExtendAll(EmptyObject, LayersDataviews(_getLayers))
    IN  IF dataviewId \in DOMAIN dataviews THEN <<dataviews[dataviewId]>>
        ELSE Prop(_getDataviews, dataviewId)

\* the result is the sequence of the values returned: << >> is undefined
getDataviewMetadata(dataviewId) ==
    IF dataviewId \in DOMAIN _getDataviews
    THEN <<_getDataviews[dataviewId]>>
    ELSE LET dataviews == ExtendAll(EmptyObject, LayersDataviews(_getLayers))
         IN  IF dataviewId \in DOMAIN dataviews THEN <<dataviews[dataviewId]>> ELSE << >>

\* a lookup that counts the layers from one
getLayerMetadata_OneBased(layerIndex) ==
    LET layers == _getLayers
    IN  IF layerIndex \in 1..Len(layers) /\ "meta" \in DOMAIN layers[layerIndex]
        THEN layers[layerIndex].meta ELSE EmptyObject

\* layerIndex counts from zero, the sequences of the model from one
getLayerMetadata(layerIndex) ==
    LET layers == _getLayers
    IN  IF layerIndex + 1 \in 1..Len(layers) /\ "meta" \in DOMAIN layers[layerIndex + 1]
        THEN layers[layerIndex + 1].meta ELSE EmptyObject

(***************************************************************************)
(* A handler runs as a sequence of steps over a world: the objects the     *)
(* handler can change, the steps it has taken so far (events), the request *)
(* it has constructed, the messages of the exceptions raised so far and    *)
(* the exception that is propagating, if any.                              *)
(***************************************************************************)
NoAnswer == [query |-> "none", args |-> << >>, result |-> << >>]

World ==
    [tracker |-> tracker, attrs |-> attrs, updater |-> updater, inflight |-> inflight,
     events |-> <<>>, request |-> <<>>, raised |-> <<>>, thrown |-> <<>>, caught |-> FALSE,
     response |-> <<>>, answer |-> NoAnswer,
     client |-> [mode |-> "later"], resolved |-> {}]

Emit(w, name, id) == [w EXCEPT !.events = Append(@, Event(name, id))]

Throw(w, message) == [w EXCEPT !.thrown = <<message>>, !.raised = Append(@, message)]

\* options.success && options.success(this)
CallSuccess(w, request) ==
    IF "success" \in DOMAIN request.options
    THEN LET called == Emit(w, "options.success", request.id)
         IN  IF request.options.success = "throws"
             THEN Throw(called, CallbackMessage) ELSE called
    ELSE w

\* options.error && options.error()
CallError(w, options, id) ==
    IF "error" \in DOMAIN options
    THEN LET called == Emit(w, "options.error", id)
         IN  IF options.error = "throws" THEN Throw(called, CallbackMessage) ELSE called
    ELSE w

\* this._modelUpdater.setErrors(errors)
setErrors(w, errors, id) ==
    Emit([w EXCEPT !.updater = [op |-> "setErrors", errors |-> errors]], "setErrors", id)

\* this._modelUpdater.updateModels(this, options.sourceId, options.forceFetch)
updateModels(w, request) ==
    Emit([w EXCEPT !.updater = [op |-> "updateModels",
                                layergroupid |-> Prop(w.attrs, "layergroupid"),
                                sourceId |-> Prop(request.options, "sourceId"),
                                forceFetch |-> Prop(request.options, "forceFetch")]],
         "updateModels", request.id)

\* this.set(response)
set(w, response, id) == Emit([w EXCEPT !.attrs = Extend(@, response)], "set", id)

\* a gate that lets every request through
_canPerformRequest_Always(w, request) == TRUE

_canPerformRequest(w, request) == canRequestBePerformed(w.tracker, request)

_trackRequest(w, request, response) ==
    Emit([w EXCEPT !.tracker = track(@, request, response)], "track", request.id)

\* a success handler that falls through to the error callback
OnSuccess_FallsThrough(w, request, response) ==
    LET tracked   == _trackRequest(w, request, response)
        replaced  == set(tracked, response, request.id)
        updated   == updateModels(replaced, request)
        triggered == Emit(updated, "instanceCreated", request.id)
    IN  CallError(CallSuccess(triggered, request), request.options, request.id)

\* a success handler that calls the caller back before doing its own work
OnSuccess_CallbackFirst(w, request, response) ==
    LET called    == CallSuccess(w, request)
        tracked   == _trackRequest(called, request, response)
        replaced  == set(tracked, response, request.id)
        updated   == updateModels(replaced, request)
    IN  Emit(updated, "instanceCreated", request.id)

\* the success handler of _performRequest
OnSuccess(w, request, response) ==
    LET tracked   == _trackRequest(w, request, response)
        replaced  == set(tracked, response, request.id)
        updated   == updateModels(replaced, request)
        triggered == Emit(updated, "instanceCreated", request.id)
    IN  CallSuccess(triggered, request)

\* an error handler that does not record the attempt
OnError_Untracked(w, request, response) ==
    LET reported == setErrors(w, _getErrorsFromResponse(response), request.id)
    IN  CallError(reported, request.options, request.id)

\* an error handler that calls the caller back before recording anything
OnError_CallbackFirst(w, request, response) ==
    LET called   == CallError(w, request.options, request.id)
        tracked  == _trackRequest(called, request, response)
    IN  setErrors(tracked, _getErrorsFromResponse(response), request.id)

\* an error handler that sends the failed request again
OnError_Retries(w, request, response) ==
    LET tracked  == _trackRequest(w, request, response)
        reported == setErrors(tracked, _getErrorsFromResponse(response), request.id)
        called   == CallError(reported, request.options, request.id)
    IN  IF called.thrown = <<>>
        THEN Emit([called EXCEPT !.inflight = @ \cup {request}], "instantiateMap", request.id)
        ELSE called

\* an error handler that announces an instance all the same
OnError_Notifies(w, request, response) ==
    LET tracked  == _trackRequest(w, request, response)
        reported == setErrors(tracked, _getErrorsFromResponse(response), request.id)
        notified == Emit(reported, "instanceCreated", request.id)
    IN  CallError(notified, request.options, request.id)

\* an error handler that stores the error response as it stores a successful one
OnError_SetsResponse(w, request, response) ==
    LET tracked  == _trackRequest(w, request, response)
        replaced == [tracked EXCEPT !.attrs = Extend(Without(@, {"layergroupid"}), response)]
        reported == setErrors(replaced, _getErrorsFromResponse(response), request.id)
    IN  CallError(reported, request.options, request.id)

\* the error handler of _performRequest
OnError(w, request, response) ==
    LET tracked  == _trackRequest(w, request, response)
        reported == setErrors(tracked, _getErrorsFromResponse(response), request.id)
    IN  CallError(reported, request.options, request.id)

\* client.instantiateMap: the call is handed to the client.  A client that
\* resolves later keeps the request in flight and calls one of the two
\* handlers in a later step; a client that resolves at once calls the handler
\* before instantiateMap returns, and what the handler throws comes out of
\* instantiateMap
instantiateMap(w, request) ==
    LET called == Emit(w, "instantiateMap", request.id)
    IN  IF w.client.mode = "later"
        THEN [called EXCEPT !.inflight = @ \cup {request}]
        ELSE LET resolving == [called EXCEPT !.resolved = @ \cup {request},
                                             !.response = <<w.client.response>>]
             IN  IF w.client.mode = "success"
                 THEN OnSuccess(resolving, request, w.client.response)
                 ELSE OnError(resolving, request, w.client.response)

\* a send that records the attempt in the tracker at once
_performRequest_Tracks(w, request) ==
    _trackRequest(instantiateMap(w, request), request, EmptyObject)

_performRequest(w, request) == instantiateMap(w, request)

\* a build that extracts the filters whether or not they were asked for
Build_AlwaysFilters(json, includeFilters, dataviews) ==
    IF json.threw THEN json
    ELSE LET filters == _getFilterParamFromDataviews(dataviews)
         IN  IF filters.threw THEN filters
             ELSE Returned([payload |-> json.value,
                            params |-> IF DOMAIN filters.value # {}
                                       THEN Extend(_getParams, [filters |-> filters.value])
                                       ELSE _getParams])

\* payload and params of createInstance, or the exception of the build
Build(json, includeFilters, dataviews) ==
    IF json.threw THEN json
    ELSE IF includeFilters
         THEN LET filters == _getFilterParamFromDataviews(dataviews)
              IN  IF filters.threw THEN filters
                  ELSE Returned([payload |-> json.value,
                                 params |-> IF DOMAIN filters.value # {}
                                            THEN Extend(_getParams, [filters |-> filters.value])
                                            ELSE _getParams])
         ELSE Returned([payload |-> json.value, params |-> _getParams])

\* a try block that reports a rejected request and sends it all the same
TryBlock_SendsRejected(w, id, json, includeFilters, dataviews, options) ==
    LET built == Build(json, includeFilters, dataviews)
    IN  IF built.threw THEN Throw(w, built.message)
        ELSE LET request == Request(id, built.value.payload, built.value.params, options)
                 made    == [w EXCEPT !.request = <<request>>]
             IN  IF _canPerformRequest(made, request)
                 THEN _performRequest(made, request)
                 ELSE _performRequest(CallError(Emit(made, "log.error", id), options, id),
                                      request)

\* a try block that only logs a rejected request
TryBlock_SilentRejection(w, id, json, includeFilters, dataviews, options) ==
    LET built == Build(json, includeFilters, dataviews)
    IN  IF built.threw THEN Throw(w, built.message)
        ELSE LET request == Request(id, built.value.payload, built.value.params, options)
                 made    == [w EXCEPT !.request = <<request>>]
             IN  IF _canPerformRequest(made, request)
                 THEN _performRequest(made, request)
                 ELSE Emit(made, "log.error", id)

\* the try block of createInstance
TryBlock(w, id, json, includeFilters, dataviews, options) ==
    LET built == Build(json, includeFilters, dataviews)
    IN  IF built.threw THEN Throw(w, built.message)
        ELSE LET request == Request(id, built.value.payload, built.value.params, options)
                 made    == [w EXCEPT !.request = <<request>>]
             IN  IF _canPerformRequest(made, request)
                 THEN _performRequest(made, request)
                 ELSE CallError(Emit(made, "log.error", id), options, id)

\* a catch block that only logs the exception
CatchBlock_Swallows(w, id, options) ==
    Emit([w EXCEPT !.thrown = <<>>, !.caught = TRUE], "log.error", id)

\* a catch block that also records the failed call in the tracker
CatchBlock_Records(w, id, options) ==
    LET error    == WindshaftError([message |-> w.thrown[1]])
        handling == [w EXCEPT !.thrown = <<>>, !.caught = TRUE]
        tracked  == _trackRequest(handling, Request(id, "undefined", EmptyObject, options),
                                  EmptyObject)
        reported == setErrors(tracked, <<error>>, id)
    IN  CallError(Emit(reported, "log.error", id), options, id)

\* the catch block of createInstance
CatchBlock(w, id, options) ==
    LET error    == WindshaftError([message |-> w.thrown[1]])
        handling == [w EXCEPT !.thrown = <<>>, !.caught = TRUE]
        reported == setErrors(handling, <<error>>, id)
    IN  CallError(Emit(reported, "log.error", id), options, id)

\* createInstance without its try / catch
createInstance_Unguarded(w, id, json, includeFilters, dataviews, options) ==
    TryBlock(w, id, json, includeFilters, dataviews, options)

createInstance(w, id, json, includeFilters, dataviews, options) ==
    LET tried == TryBlock(w, id, json, includeFilters, dataviews, options)
    IN  IF tried.thrown = <<>> THEN tried ELSE CatchBlock(tried, id, options)

(***************************************************************************)
(* The state machine.                                                      *)
(***************************************************************************)
InFlightFor(requests, fp) == Cardinality({r \in requests : Fingerprint(r) = fp})

Fingerprints(records) == {records[i].fingerprint : i \in 1..Len(records)}

\* the handler op ran for call id, which was made with options, and left world w
Ran(op, id, options, w) ==
    LET issued == (w.inflight \ inflight) \cup w.resolved
        fps    == {Fingerprint(r) : r \in issued}
    IN  /\ attrs' = w.attrs
        /\ tracker' = w.tracker
        /\ inflight' = w.inflight
        /\ updater' = w.updater
        /\ sent' = Extend(sent, [fp \in fps |-> Count(sent, fp) + 1])
        /\ peak' = Extend(peak, [fp \in {f \in fps : InFlightFor(w.inflight, f) > Count(peak, f)}
                                    |-> InFlightFor(w.inflight, fp)])
        /\ evicted' = evicted \cup (Fingerprints(tracker) \ Fingerprints(w.tracker))
        /\ last' = [op |-> op, id |-> id, events |-> w.events, request |-> w.request,
                    options |-> options, raised |-> w.raised, caught |-> w.caught,
                    escaped |-> w.thrown # <<>>, response |-> w.response]
        /\ answer' = w.answer

Init ==
    /\ attrs = ClientAttrs
    /\ tracker = <<>>
    /\ inflight = {}
    /\ updater = [op |-> "none"]
    /\ nextId = 0
    /\ sent = EmptyObject
    /\ peak = EmptyObject
    /\ evicted = {}
    /\ last = [op |-> "initialize", id |-> 0, events |-> <<>>, request |-> <<>>,
               options |-> EmptyObject, raised |-> <<>>, caught |-> FALSE, escaped |-> FALSE,
               response |-> <<>>]
    /\ answer = NoAnswer

\* a createInstance call, its inputs drawn from the given sets
Issue(bound, jsons, flags, collections, optionSet) ==
    /\ nextId < bound
    /\ nextId' = nextId + 1
    /\ \E json \in jsons, includeFilters \in flags,
          dataviews \in collections, options \in optionSet :
            Ran("createInstance", nextId + 1, options,
                createInstance(World, nextId + 1, json, includeFilters, dataviews, options))

\* the client resolves a request in flight by calling its success handler
Succeed(responses) ==
    /\ nextId' = nextId
    /\ \E request \in inflight, response \in responses :
            Ran("success", request.id, request.options,
                OnSuccess([World EXCEPT !.inflight = @ \ {request}, !.request = <<request>>,
                                        !.response = <<response>>],
                          request, response))

\* the client resolves a request in flight by calling its error handler
Fail(responses) ==
    /\ nextId' = nextId
    /\ \E request \in inflight, response \in responses :
            Ran("error", request.id, request.options,
                OnError([World EXCEPT !.inflight = @ \ {request}, !.request = <<request>>,
                                        !.response = <<response>>],
                        request, response))

\* Spec: every input, a few calls
CreateInstance == Issue(MaxRequests, ToJSONOutcomes, BOOLEAN, DataviewCollections, OptionSet)

ResolveSuccess == Succeed(SuccessResponses)

ResolveError == Fail(ErrorResponses)

Next == CreateInstance \/ ResolveSuccess \/ ResolveError

Spec == Init /\ [][Next]_vars

\* SpecRepeat: the same map definitions instantiated again and again, with
\* every kind of options and a build that may fail
RepeatJSON == ToJSONOutcomes

RepeatSuccessResponses == {r \in SuccessResponses : "cdn_url" \notin DOMAIN r}

RepeatErrorResponses == {r \in ErrorResponses : DOMAIN r = {"errors"}}

RepeatOptions == {o \in OptionSet : "error" \in DOMAIN o}

RepeatInstance == Issue(MaxRepeats, RepeatJSON, {FALSE}, DataviewCollections, RepeatOptions)

RepeatSuccess == Succeed(RepeatSuccessResponses)

RepeatError == Fail(RepeatErrorResponses)

NextRepeat == RepeatInstance \/ RepeatSuccess \/ RepeatError

SpecRepeat == Init /\ [][NextRepeat]_vars

\* SpecBurst: many calls for one map definition, issued before earlier ones
\* have resolved
BurstJSON == {Returned("mapA")}

BurstOptions == {o \in OptionSet : "sourceId" \in DOMAIN o}

BurstInstance == Issue(MaxBurst, BurstJSON, {FALSE}, DataviewCollections, BurstOptions)

BurstSuccess == Succeed(RepeatSuccessResponses)

BurstError == Fail(RepeatErrorResponses)

NextBurst == BurstInstance \/ BurstSuccess \/ BurstError

SpecBurst == Init /\ [][NextBurst]_vars

\* the state after construction from one of the given constructor attributes
Constructed(configs) ==
    /\ attrs \in configs
    /\ tracker = <<>>
    /\ inflight = {}
    /\ updater = [op |-> "none"]
    /\ nextId = 0
    /\ sent = EmptyObject
    /\ peak = EmptyObject
    /\ evicted = {}
    /\ last = [op |-> "initialize", id |-> 0, events |-> <<>>, request |-> <<>>,
               options |-> EmptyObject, raised |-> <<>>, caught |-> FALSE, escaped |-> FALSE,
               response |-> <<>>]
    /\ answer = NoAnswer

\* a createInstance call whose arguments are kept for inspection
IssueObserved(bound, jsons, flags, collections, optionSet) ==
    /\ nextId < bound
    /\ nextId' = nextId + 1
    /\ \E json \in jsons, includeFilters \in flags,
          dataviews \in collections, options \in optionSet :
            Ran("createInstance", nextId + 1, options,
                createInstance([World EXCEPT !.answer =
                                    [query |-> "createInstance",
                                     args |-> <<includeFilters, dataviews>>,
                                     result |-> << >>]],
                               nextId + 1, json, includeFilters, dataviews, options))

\* a query: it reads the attributes and changes nothing
Query(name, args, result) ==
    /\ answer' = [query |-> name, args |-> args, result |-> result]
    /\ UNCHANGED <<attrs, tracker, inflight, updater, nextId, sent, peak, evicted, last>>

\* SpecParams: the params and filters of a request and the normalization of
\* its errors, for every way the credentials can be configured
CredentialConfigs ==
    { ClientAttrs,
      Without(ClientAttrs, {"authToken"}),
      Without(ClientAttrs, {"apiKey"}),
      Without(ClientAttrs, {"apiKey", "authToken"}),
      [ClientAttrs EXCEPT !.apiKey = ""] }

FilterCollections ==
    { << >>,
      <<NoFilterDataview, EmptyFilterDataview>>,
      <<FilterDataview("a", "1"), NoFilterDataview, FilterDataview("a", "2")>>,
      <<FilterDataview("b", "3"), EmptyFilterDataview, FilterDataview("a", "1")>>,
      <<FilterDataview("a", "1"), ThrowingFilterDataview>> }

ParamsOptions == { [error |-> "returns"] }

ParamsSuccessResponses == { [layergroupid |-> "lg1"] }

NormalizerResponses ==
    { [errors_with_context |-> << [type |-> "layer", message |-> "ctx1",
                                   layer |-> [id |-> "l1"]],
                                  [type |-> "unknown", message |-> "ctx2"] >>,
       errors |-> <<"a", "b">>],
      [errors_with_context |-> << [type |-> "unknown", message |-> "ctx2"] >>],
      [errors_with_context |-> << >>, errors |-> <<"a">>],
      [errors |-> <<"a", "b">>],
      [errors |-> <<"b">>],
      [errors |-> << >>],
      EmptyObject }

ParamsInstance ==
    IssueObserved(MaxParamsCalls, BurstJSON, BOOLEAN, FilterCollections, ParamsOptions)

ParamsSuccess == Succeed(ParamsSuccessResponses)

ParamsError == Fail(NormalizerResponses)

NextParams == ParamsInstance \/ ParamsSuccess \/ ParamsError

SpecParams == Constructed(CredentialConfigs) /\ [][NextParams]_vars

\* SpecSync: a client that may resolve a request before instantiateMap
\* returns, and callbacks that may throw
SyncClients ==
    { [mode |-> "later"] }
        \cup { [mode |-> "success", response |-> r] : r \in RepeatSuccessResponses }
        \cup { [mode |-> "error", response |-> r] : r \in RepeatErrorResponses }

SyncOptions ==
    { [success |-> "throws", error |-> "returns"],
      [success |-> "returns", error |-> "returns"],
      [success |-> "throws"] }

\* a createInstance call on a model whose client is one of the given clients
IssueSync(bound, jsons, clients, optionSet) ==
    /\ nextId < bound
    /\ nextId' = nextId + 1
    /\ \E json \in jsons, client \in clients, options \in optionSet :
            Ran("createInstance", nextId + 1, options,
                createInstance([World EXCEPT !.client = client],
                               nextId + 1, json, FALSE, << >>, options))

SyncInstance == IssueSync(MaxSyncCalls, RepeatJSON, SyncClients, SyncOptions)

SyncSuccess == Succeed(RepeatSuccessResponses)

SyncError == Fail(RepeatErrorResponses)

NextSync == SyncInstance \/ SyncSuccess \/ SyncError

SpecSync == Init /\ [][NextSync]_vars

\* SpecHost: the queries on the attributes a response leaves, for every kind
\* of URL template
TemplateConfigs ==
    { ClientAttrs,
      [ClientAttrs EXCEPT !.urlTemplate = <<"https", "://", "{user}", ".example.com">>],
      [ClientAttrs EXCEPT !.urlTemplate = <<"http", "://", "{user}", ".example.com/", "{user}">>],
      [ClientAttrs EXCEPT !.urlTemplate = <<"https", "://maps.example.com">>] }

HostResponses ==
    { [layergroupid |-> "lg1",
       cdn_url |-> [http |-> "cdn.example.com", https |-> "cdns.example.com"],
       metadata |-> [layers |-> << [type |-> "mapnik", meta |-> [stats |-> "s0"],
                                    widgets |-> [w1 |-> [from |-> "layer0"],
                                                 w2 |-> [from |-> "layer0"]]],
                                   [type |-> "http"],
                                   [type |-> "torque", meta |-> [cartocss |-> "c2"],
                                    widgets |-> [w2 |-> [from |-> "layer2"]]] >>]],
      [layergroupid |-> "lg2",
       cdn_url |-> [http |-> "cdn.example.com"],
       metadata |-> [dataviews |-> [w1 |-> [from |-> "direct"]],
                     layers |-> << [type |-> "mapnik", meta |-> [stats |-> "s3"],
                                    widgets |-> [w1 |-> [from |-> "layer0"],
                                                 w3 |-> [from |-> "layer0"]]] >>]],
      [layergroupid |-> "lg3",
       cdn_url |-> [http |-> "", https |-> "cdns.example.com"]],
      [layergroupid |-> "lg4", metadata |-> [dataviews |-> EmptyObject]] }

Subhosts == { << >>, <<"">>, <<"1">> }

LayerIndexes == {0, 1, 2}

DataviewIds == {"w1", "w2", "w3"}

HostInstance == Issue(MaxHostCalls, BurstJSON, {FALSE}, {<< >>}, {EmptyObject})

HostSuccess == Succeed(HostResponses)

HostError == Fail({EmptyObject})

GetBaseURL == \E subhost \in Subhosts : Query("getBaseURL", subhost, getBaseURL(subhost))

GetSupportedSubdomains == Query("getSupportedSubdomains", << >>, getSupportedSubdomains)

GetLayerMetadata ==
    \E layerIndex \in LayerIndexes :
        Query("getLayerMetadata", <<layerIndex>>, getLayerMetadata(layerIndex))

GetDataviewMetadata ==
    \E dataviewId \in DataviewIds :
        Query("getDataviewMetadata", <<dataviewId>>, getDataviewMetadata(dataviewId))

NextHost ==
    \/ HostInstance
    \/ HostSuccess
    \/ HostError
    \/ GetBaseURL
    \/ GetSupportedSubdomains
    \/ GetLayerMetadata
    \/ GetDataviewMetadata

SpecHost == Constructed(TemplateConfigs) /\ [][NextHost]_vars

\* SpecFailure: calls for one map definition that succeed, fail, are rejected
\* at the ceiling or fail to build, on a model whose responses carry a CDN
\* host map and layer metadata
FailureJSON == BurstJSON \cup {Thrown("toJSON failed")}

FailureSuccessResponses ==
    {r \in HostResponses : "cdn_url" \in DOMAIN r /\ "metadata" \in DOMAIN r}

FailureInstance == Issue(MaxFailureCalls, FailureJSON, {FALSE}, {<< >>}, ParamsOptions)

FailureSuccess == Succeed(FailureSuccessResponses)

FailureError == Fail(RepeatErrorResponses)

NextFailure == FailureInstance \/ FailureSuccess \/ FailureError

SpecFailure == Init /\ [][NextFailure]_vars

(***************************************************************************)
(* Vocabulary of the properties.                                           *)
(***************************************************************************)
\* the handler that ran last was createInstance
Created == last.op = "createInstance"

\* ... and its build step threw before a request was constructed
BuildFailed == Created /\ last.request = <<>>

\* ... and the tracker refused its request
Rejected == Created /\ last.request # <<>> /\ Occurs(last.events, "instantiateMap") = 0

LastFingerprint == Fingerprint(last.request[1])

HasCallback(name) == name \in DOMAIN last.options

SeenFingerprints == DOMAIN sent

\* the step is a createInstance call
IsCall == nextId' = nextId + 1

\* the calls of the caller's callbacks among the steps of a handler
Callbacks(events) ==
    SelectSeq(events, LAMBDA e : e.ev \in {"options.success", "options.error"})

\* the callback calls request r is owed when it resolves through handler op
CallbacksOwed(r, op) ==
    LET name == IF op = "success" THEN "success" ELSE "error"
    IN  IF name \in DOMAIN r.options THEN << Event("options." \o name, r.id) >> ELSE << >>

\* the names of the steps of a handler, in order
Names(events) == [i \in 1..Len(events) |-> events[i].ev]

\* the tracker holds a record of request whose last response is response
TrackerHolds(request, response) ==
    \E i \in 1..Len(tracker) :
        /\ tracker[i].fingerprint = Fingerprint(request)
        /\ tracker[i].lastResponse = response

RECURSIVE Total(_)
\* the sum of the counters of f
Total(f) ==
    IF DOMAIN f = {} THEN 0
    ELSE LET k == CHOOSE x \in DOMAIN f : TRUE
         IN  f[k] + Total([x \in DOMAIN f \ {k} |-> f[x]])

\* the attributes retained from a successful response
RetainedKeys == UNION {DOMAIN r : r \in SuccessResponses}

(***************************************************************************)
(* C1.  Original claim: in every reachable state, overlapping calls        *)
(* included, at most MAP_INSTANTIATION_LIMIT instantiateMap calls have     *)
(* been made for one fingerprint.                                          *)
(***************************************************************************)
C1_SentNeverExceedsLimit ==
    \A fp \in SeenFingerprints : sent[fp] <= MAP_INSTANTIATION_LIMIT

\* C1, amended: while no two requests with fingerprint fp have been in flight
\* together and the tracker has not evicted fp's record, at most
\* MAP_INSTANTIATION_LIMIT instantiateMap calls have been made for fp.
C1_SequentialSentWithinLimit ==
    \A fp \in SeenFingerprints :
        (Count(peak, fp) <= 1 /\ fp \notin evicted) => sent[fp] <= MAP_INSTANTIATION_LIMIT

\* the limit is reached by calls that never overlapped, and the next
\* identical call has just been refused
C1_Witness ==
    /\ Rejected
    /\ LastFingerprint \in SeenFingerprints
    /\ sent[LastFingerprint] = MAP_INSTANTIATION_LIMIT
    /\ Count(peak, LastFingerprint) = 1
    /\ LastFingerprint \notin evicted

(***************************************************************************)
(* C2.  A createInstance call whose fingerprint has                        *)
(* MAP_INSTANTIATION_LIMIT recorded attempts in the tracker makes no       *)
(* backend call and invokes the caller's error callback; this holds at     *)
(* every such call, for as long as the record stays in the tracker.        *)
(***************************************************************************)
C2_CeilingRejectsLocally ==
    [][ ( /\ IsCall
          /\ last'.request # <<>>
          /\ OccurrenceCount(tracker, Fingerprint(last'.request[1]))
                 >= MAP_INSTANTIATION_LIMIT )
        => ( /\ inflight' = inflight
             /\ sent' = sent
             /\ tracker' = tracker
             /\ Occurs(last'.events, "instantiateMap") = 0
             /\ ("error" \in DOMAIN last'.options
                    => Occurs(last'.events, "options.error") >= 1) ) ]_vars

\* a call found MAP_INSTANTIATION_LIMIT recorded attempts, was not sent and
\* reached the error callback
C2_Witness ==
    /\ Rejected
    /\ OccurrenceCount(tracker, LastFingerprint) = MAP_INSTANTIATION_LIMIT
    /\ Occurs(last.events, "options.error") >= 1
    /\ inflight = {}

(***************************************************************************)
(* C3.  Original claim: under any interleaving the instantiateMap calls    *)
(* made for one fingerprint never exceed MAP_INSTANTIATION_LIMIT plus      *)
(* MAP_INSTANTIATION_LIMIT extra sends.                                    *)
(***************************************************************************)
C3_SentWithinTwiceLimit ==
    \A fp \in SeenFingerprints : sent[fp] <= MAP_INSTANTIATION_LIMIT + MAP_INSTANTIATION_LIMIT

\* C3, amended: the excess is bounded only by the overlap.  The attempts for
\* fp that the tracker has recorded plus those still in flight never exceed
\* MAP_INSTANTIATION_LIMIT - 1 plus the largest number of requests for fp
\* that were in flight at the same time.
C3_ExcessBoundedByOverlap ==
    \A fp \in SeenFingerprints :
        OccurrenceCount(tracker, fp) + InFlightFor(inflight, fp)
            <= MAP_INSTANTIATION_LIMIT - 1 + Count(peak, fp)

\* the amended bound is attained in a state that breaks the original one
C3_Witness ==
    \E fp \in SeenFingerprints :
        /\ sent[fp] > MAP_INSTANTIATION_LIMIT + MAP_INSTANTIATION_LIMIT
        /\ OccurrenceCount(tracker, fp) > 0
        /\ OccurrenceCount(tracker, fp) + InFlightFor(inflight, fp)
               = MAP_INSTANTIATION_LIMIT - 1 + Count(peak, fp)

(***************************************************************************)
(* C4.  A request that is sent has none of its callbacks invoked while it  *)
(* is in flight; the step that resolves it invokes exactly the one         *)
(* callback that matches the outcome (when the caller supplied it), once,  *)
(* for that request and for no other request in flight.                    *)
(***************************************************************************)
C4_OneCallbackAfterOwnResponse ==
    [][ /\ (IsCall /\ Occurs(last'.events, "instantiateMap") > 0)
            => /\ Callbacks(last'.events) = << >>
               /\ inflight' = inflight \cup {last'.request[1]}
               /\ last'.request[1] \notin inflight
        /\ (~IsCall)
            => \E r \in inflight :
                    /\ r.id = last'.id
                    /\ last'.op \in {"success", "error"}
                    /\ inflight' = inflight \ {r}
                    /\ Callbacks(last'.events) = CallbacksOwed(r, last'.op) ]_vars

\* a request resolved with success while another was still in flight, and
\* only its own success callback ran
C4_Witness ==
    /\ last.op = "success"
    /\ inflight # {}
    /\ Callbacks(last.events) = << Event("options.success", last.id) >>
    /\ "error" \in DOMAIN last.options

(***************************************************************************)
(* C5.  Original claim: every backend call that resolves, with success or  *)
(* with error, is tracked exactly once, for its own request, and the       *)
(* recorded count of every fingerprint equals the number of resolved       *)
(* attempts with that fingerprint.                                         *)
(***************************************************************************)
C5_CountEqualsResolvedAttempts ==
    /\ [](\A fp \in SeenFingerprints :
            OccurrenceCount(tracker, fp) = sent[fp] - InFlightFor(inflight, fp))
    /\ [][ ~IsCall
           => \E r \in inflight :
                  /\ r.id = last'.id
                  /\ EventsNamed(last'.events, "track") = << Event("track", r.id) >> ]_vars

\* C5, amended: every backend call that resolves, with success or with
\* error, is tracked exactly once, for its own request, and raises the
\* recorded count of its fingerprint by one; nothing else records an attempt.
\* The recorded count of a fingerprint equals the number of resolved attempts
\* with that fingerprint for as long as the tracker has not evicted the
\* fingerprint's record.
C5_TrackedOncePerResolvedAttempt ==
    /\ [](\A fp \in SeenFingerprints :
            fp \notin evicted
                => OccurrenceCount(tracker, fp) = sent[fp] - InFlightFor(inflight, fp))
    /\ [][ IF IsCall
           THEN tracker' = tracker /\ Occurs(last'.events, "track") = 0
           ELSE \E r \in inflight :
                    /\ r.id = last'.id
                    /\ EventsNamed(last'.events, "track") = << Event("track", r.id) >>
                    /\ OccurrenceCount(tracker', Fingerprint(r))
                           = OccurrenceCount(tracker, Fingerprint(r)) + 1
                    /\ \A fp \in SeenFingerprints \ {Fingerprint(r)} :
                           OccurrenceCount(tracker', fp) <= OccurrenceCount(tracker, fp) ]_vars

\* a fingerprint has two recorded attempts, the second one a failed response
C5_Witness ==
    /\ last.op = "error"
    /\ OccurrenceCount(tracker, LastFingerprint) = 2
    /\ sent[LastFingerprint] - InFlightFor(inflight, LastFingerprint) = 2
    /\ LastFingerprint \notin evicted

(***************************************************************************)
(* C6.  The claim: the attributes retained from successful responses       *)
(* (layergroupid, metadata, cdn_url) all come from one and the same        *)
(* response, so an attribute the latest response lacks is not kept.        *)
(***************************************************************************)
C6_MetadataFromOneResponse ==
    (RetainedKeys \cap DOMAIN attrs # {})
        => \E r \in SuccessResponses :
                \A k \in RetainedKeys :
                    /\ k \in DOMAIN attrs <=> k \in DOMAIN r
                    /\ k \in DOMAIN attrs => attrs[k] = r[k]

(***************************************************************************)
(* C7.  The claim: every error kind (a build failure, a ceiling rejection, *)
(* a failed backend response) both updates the dependent error state       *)
(* through setErrors and invokes the caller's error callback.              *)
(***************************************************************************)
C7_EveryErrorKindReported ==
    (BuildFailed \/ Rejected \/ last.op = "error")
        => /\ Occurs(last.events, "setErrors") >= 1
           /\ HasCallback("error") => Occurs(last.events, "options.error") >= 1

\* C7, amended: a build failure and a failed backend response each call
\* setErrors once and then the caller's error callback; a ceiling rejection
\* invokes the caller's error callback, and reaches setErrors only when that
\* callback throws.
C7_ErrorKindsReported ==
    /\ (BuildFailed \/ Rejected \/ last.op = "error")
            => (HasCallback("error") => Occurs(last.events, "options.error") >= 1)
    /\ (BuildFailed \/ last.op = "error")
            => /\ Occurs(last.events, "setErrors") = 1
               /\ updater.op = "setErrors"
               /\ \A i \in 1..Len(last.events) :
                      last.events[i].ev = "options.error"
                          => \E j \in 1..(i - 1) : last.events[j].ev = "setErrors"
    /\ Rejected
            => (Occurs(last.events, "setErrors") >= 1
                    <=> (HasCallback("error") /\ last.options.error = "throws"))

\* a ceiling rejection whose error callback returned: the callback ran once
\* and setErrors was not called
C7_Witness ==
    /\ Rejected
    /\ Occurs(last.events, "options.error") = 1
    /\ Occurs(last.events, "setErrors") = 0
    /\ ~last.escaped

(***************************************************************************)
(* C8.  The claim: no exception escapes createInstance, whatever throws    *)
(* while the request is built, gated or sent or inside a callback invoked  *)
(* from createInstance.                                                    *)
(***************************************************************************)
C8_NoExceptionEscapes == Created => ~last.escaped

(***************************************************************************)
(* C9.  When the build of the payload, params or filters throws,           *)
(* createInstance makes no backend call, hands setErrors exactly one       *)
(* WindshaftError carrying the message of the exception, and invokes the   *)
(* caller's error callback (when there is one) exactly once.               *)
(***************************************************************************)
C9_BuildFailureReportedOnce ==
    BuildFailed
        => /\ Occurs(last.events, "instantiateMap") = 0
           /\ last.caught
           /\ last.raised # << >>
           /\ Occurs(last.events, "setErrors") = 1
           /\ updater = [op |-> "setErrors",
                         errors |-> << WindshaftError([message |-> last.raised[1]]) >>]
           /\ Occurs(last.events, "options.error") = (IF HasCallback("error") THEN 1 ELSE 0)
           /\ Occurs(last.events, "options.success") = 0

\* a filter's toJSON threw while a request was in flight: one error with its
\* message was forwarded and the error callback ran once
C9_Witness ==
    /\ BuildFailed
    /\ last.raised[1] = "filter failed"
    /\ updater.op = "setErrors"
    /\ Len(updater.errors) = 1
    /\ updater.errors[1].message = << "filter failed" >>
    /\ Occurs(last.events, "options.error") = 1
    /\ inflight # {}

(***************************************************************************)
(* C10.  The claim: a createInstance call that fails in its build step is  *)
(* recorded in the request tracker as an attempt.                          *)
(***************************************************************************)
C10_BuildFailureRecorded ==
    [][ (IsCall /\ last'.request = << >>)
            => (tracker' # tracker /\ Occurs(last'.events, "track") = 1) ]_vars

\* C10, amended: a createInstance call that fails in its build step is not
\* recorded in the request tracker: track is not called and every record is
\* left as it was, so build failures do not count toward the ceiling.
C10_BuildFailureNotRecorded ==
    [][ (IsCall /\ last'.request = << >>)
            => (tracker' = tracker /\ Occurs(last'.events, "track") = 0) ]_vars

\* a build failed after an attempt had been recorded, and the tracker still
\* holds that one attempt
C10_Witness ==
    /\ BuildFailed
    /\ Len(tracker) = 1
    /\ tracker[1].occurrenceCount = 1
    /\ nextId = 2

(***************************************************************************)
(* C11.  The success handler of a request does, in this order and once     *)
(* each: record the outcome in the tracker, set the attributes from the    *)
(* response, update the dependent models with the request's sourceId and   *)
(* forceFetch, trigger 'instanceCreated', and only then call the caller's  *)
(* success callback, when there is one.  The model updater sees the        *)
(* response's layergroupid, so the attributes were set before it ran.      *)
(***************************************************************************)
C11_SuccessStepsInOrder ==
    last.op = "success" =>
        LET request  == last.request[1]
            response == last.response[1]
        IN  /\ Names(last.events)
                   = <<"track", "set", "updateModels", "instanceCreated">>
                     \o (IF "success" \in DOMAIN request.options
                         THEN <<"options.success">> ELSE << >>)
            /\ \A i \in 1..Len(last.events) : last.events[i].req = request.id
            /\ TrackerHolds(request, response)
            /\ \A k \in DOMAIN response : Prop(attrs, k) = <<response[k]>>
            /\ updater = [op |-> "updateModels",
                          layergroupid |-> Prop(response, "layergroupid"),
                          sourceId |-> Prop(request.options, "sourceId"),
                          forceFetch |-> Prop(request.options, "forceFetch")]

\* a request made with sourceId, forceFetch and a success callback has
\* succeeded, and the callback was the fifth and last step
C11_Witness ==
    /\ last.op = "success"
    /\ Prop(last.options, "sourceId") = <<"a1">>
    /\ Prop(last.options, "forceFetch") = <<TRUE>>
    /\ Len(last.events) = 5
    /\ last.events[5].ev = "options.success"
    /\ updater.op = "updateModels"

(***************************************************************************)
(* C12.  The error handler of a request does, in this order: record the    *)
(* outcome in the tracker, normalize the errors of the response, hand the  *)
(* normalized list to the model updater as the current errors, and then    *)
(* call the caller's error callback, when there is one; it never calls the *)
(* success callback.                                                       *)
(***************************************************************************)
C12_ErrorStepsInOrder ==
    last.op = "error" =>
        LET request  == last.request[1]
            response == last.response[1]
        IN  /\ Names(last.events)
                   = <<"track", "setErrors">>
                     \o (IF "error" \in DOMAIN request.options
                         THEN <<"options.error">> ELSE << >>)
            /\ \A i \in 1..Len(last.events) : last.events[i].req = request.id
            /\ TrackerHolds(request, response)
            /\ updater = [op |-> "setErrors", errors |-> _getErrorsFromResponse(response)]
            /\ Occurs(last.events, "options.success") = 0

\* a request made with both callbacks has failed with a response that
\* carries errors, and the error callback was the third and last step
C12_Witness ==
    /\ last.op = "error"
    /\ "success" \in DOMAIN last.options
    /\ Len(last.events) = 3
    /\ last.events[3].ev = "options.error"
    /\ updater.op = "setErrors"
    /\ updater.errors # << >>

(***************************************************************************)
(* C13.  The claim: responses are applied in the order they resolve, not   *)
(* the order their requests were issued: when a request succeeds after a   *)
(* request issued later has resolved, the metadata held (layergroupid,     *)
(* metadata, cdn_url) is that of the response just resolved; the late      *)
(* response is neither reordered nor discarded.                            *)
(***************************************************************************)
C13_HeldMetadataIsLastResolved ==
    (last.op = "success" /\ last.id < nextId /\ inflight = {})
        => /\ Occurs(last.events, "set") = 1
           /\ \A k \in RetainedKeys : Prop(attrs, k) = Prop(last.response[1], k)

(***************************************************************************)
(* C14.  createInstance never retries: a createInstance call makes at most *)
(* one instantiateMap call, a success or error handler makes none and      *)
(* leaves nothing new in flight, so the instantiateMap calls made never    *)
(* outnumber the createInstance calls made.                                *)
(***************************************************************************)
C14_NoRetries ==
    /\ [](Total(sent) <= nextId)
    /\ [][ /\ IsCall => /\ Occurs(last'.events, "instantiateMap") <= 1
                        /\ Cardinality(inflight' \ inflight) <= 1
                        /\ Total(sent') <= Total(sent) + 1
           /\ ~IsCall => /\ Occurs(last'.events, "instantiateMap") = 0
                         /\ inflight' \subseteq inflight
                         /\ last'.request[1] \notin inflight'
                         /\ sent' = sent ]_vars

\* the only call made was sent once, failed, reached the error callback and
\* left nothing in flight
C14_Witness ==
    /\ last.op = "error"
    /\ nextId = 1
    /\ Total(sent) = 1
    /\ inflight = {}
    /\ Occurs(last.events, "options.error") = 1

(***************************************************************************)
(* C15.  Error normalization follows a strict priority: a response with a  *)
(* contextual-errors list yields one normalized error per entry, in order, *)
(* and its plain list is ignored; otherwise a response with a plain list   *)
(* yields exactly one normalized error, whose message is the first string  *)
(* of the list; otherwise the result is the empty list.                    *)
(***************************************************************************)
C15_NormalizationPriority ==
    last.op = "error" =>
        LET response == last.response[1]
            errors   == updater.errors
        IN  IF "errors_with_context" \in DOMAIN response
            THEN /\ Len(errors) = Len(response.errors_with_context)
                 /\ \A i \in 1..Len(errors) :
                        /\ errors[i].message = Prop(response.errors_with_context[i], "message")
                        /\ errors[i].context = Without(response.errors_with_context[i],
                                                       {"message"})
            ELSE IF "errors" \in DOMAIN response
                 THEN /\ Len(errors) = 1
                      /\ errors[1].message = IF Len(response.errors) = 0 THEN << >>
                                              ELSE <<Head(response.errors)>>
                      /\ errors[1].context = EmptyObject
                 ELSE errors = << >>

\* a response with two contextual errors and two plain ones was normalized
\* into the two contextual errors
C15_Witness ==
    /\ last.op = "error"
    /\ "errors_with_context" \in DOMAIN last.response[1]
    /\ "errors" \in DOMAIN last.response[1]
    /\ Len(updater.errors) = 2
    /\ updater.errors[1].message = <<"ctx1">>
    /\ updater.errors[1].context.layer = [id |-> "l1"]
    /\ updater.errors[2].message = <<"ctx2">>

(***************************************************************************)
(* C16.  Host resolution: the protocol is https iff the URL template       *)
(* starts with "https", else http; when the CDN host map has a host for    *)
(* that protocol the base host is protocol, "://", the subhost and "."     *)
(* when the subhost is non-empty, the CDN host, "/" and the account;       *)
(* otherwise it is the template with its first "{user}" replaced by the    *)
(* account, whatever the subhost and the CDN entry of the other protocol.  *)
(* getBaseURL is that host, the maps API base path and the layergroup id   *)
(* joined by "/".                                                          *)
(***************************************************************************)
C16_BaseURLResolved ==
    answer.query = "getBaseURL" =>
        LET template == attrs.urlTemplate
            account  == attrs.userName
            protocol == IF template[1] = "https" THEN "https" ELSE "http"
            cdn      == IF /\ "cdn_url" \in DOMAIN attrs
                           /\ protocol \in DOMAIN attrs.cdn_url
                           /\ attrs.cdn_url[protocol] # ""
                        THEN <<attrs.cdn_url[protocol]>> ELSE << >>
            label    == IF answer.args = << >> THEN "" ELSE answer.args[1]
            places   == {i \in 1..Len(template) : template[i] = "{user}"}
            filled   == [i \in 1..Len(template) |->
                            IF i \in places /\ \A j \in places : i <= j
                            THEN account ELSE template[i]]
            host     == IF cdn # << >>
                        THEN protocol \o "://" \o (IF label = "" THEN "" ELSE label \o ".")
                                 \o cdn[1] \o "/" \o account
                        ELSE Join(filled, "")
            id       == IF "layergroupid" \in DOMAIN attrs THEN attrs.layergroupid ELSE ""
        IN  answer.result = host \o "/" \o MAPS_API_BASE_URL \o "/" \o id

\* with an http template, the CDN host "cdn.example.com" for http and
\* subhost "1", the base URL is on "http://1.cdn.example.com/acme"
C16_Witness ==
    /\ answer.query = "getBaseURL"
    /\ answer.args = <<"1">>
    /\ attrs.urlTemplate[1] = "http"
    /\ last.op = "success"
    /\ answer.result = "http://1.cdn.example.com/acme/api/v1/map/lg2"

(***************************************************************************)
(* C17.  getSupportedSubdomains depends only on the protocol of the URL    *)
(* template: the labels "0", "1", "2", "3" for an http template and only   *)
(* the empty label for an https one, whether or not a CDN host map is      *)
(* held; the protocol the labels stand for is the one _getHost resolves    *)
(* the host with.                                                          *)
(***************************************************************************)
C17_SubdomainsFollowTemplate ==
    answer.query = "getSupportedSubdomains" =>
        LET protocol == IF answer.result = <<"">> THEN "https" ELSE "http"
            cdn      == IF "cdn_url" \in DOMAIN attrs
                        THEN Prop(attrs.cdn_url, protocol) ELSE << >>
        IN  /\ answer.result = IF attrs.urlTemplate[1] = "https"
                               THEN <<"">> ELSE <<"0", "1", "2", "3">>
            /\ \A i \in 1..Len(answer.result) :
                   LET label == answer.result[i]
                   IN  IF cdn # << >> /\ cdn[1] # ""
                       THEN _getHost(<<label>>)
                                = protocol \o "://" \o (IF label = "" THEN "" ELSE label \o ".")
                                      \o cdn[1] \o "/" \o attrs.userName
                       ELSE _getHost(<<label>>)
                                = Join(Replace(attrs.urlTemplate, "{user}", attrs.userName), "")

\* an http template keeps its four labels while the CDN host map held has a
\* host for https only
C17_Witness ==
    /\ answer.query = "getSupportedSubdomains"
    /\ attrs.urlTemplate[1] = "http"
    /\ "cdn_url" \in DOMAIN attrs
    /\ attrs.cdn_url = [http |-> "", https |-> "cdns.example.com"]
    /\ answer.result = <<"0", "1", "2", "3">>

(***************************************************************************)
(* C18.  Original claim: the params of every request hold the stat tag and *)
(* exactly one of api_key and auth_token.                                  *)
(***************************************************************************)
C18_ExactlyOneCredential ==
    (Created /\ last.request # << >>) =>
        LET params == last.request[1].params
        IN  /\ "stat_tag" \in DOMAIN params
            /\ Cardinality(DOMAIN params \cap {"api_key", "auth_token"}) = 1

\* C18, amended: the params of every request hold the stat tag and at most
\* one credential: api_key when an API key is configured (also when an auth
\* token is configured too), otherwise auth_token when an auth token is
\* configured, otherwise neither; api_key and auth_token are never both held.
C18_AtMostOneCredential ==
    (Created /\ last.request # << >>) =>
        LET params   == last.request[1].params
            apiKey   == "apiKey" \in DOMAIN attrs /\ attrs.apiKey # ""
            authToken == "authToken" \in DOMAIN attrs /\ attrs.authToken # ""
        IN  /\ Prop(params, "stat_tag") = <<Prop(attrs, "statTag")>>
            /\ "api_key" \in DOMAIN params <=> apiKey
            /\ apiKey => params.api_key = attrs.apiKey
            /\ "auth_token" \in DOMAIN params <=> (~apiKey /\ authToken)
            /\ (~apiKey /\ authToken) => params.auth_token = attrs.authToken
            /\ ~("api_key" \in DOMAIN params /\ "auth_token" \in DOMAIN params)

\* an API key and an auth token are both configured, and the request made
\* carries the API key alone
C18_Witness ==
    /\ Created
    /\ last.request # << >>
    /\ "apiKey" \in DOMAIN attrs /\ attrs.apiKey = "key"
    /\ "authToken" \in DOMAIN attrs /\ attrs.authToken = "token"
    /\ Prop(last.request[1].params, "api_key") = <<"key">>
    /\ "auth_token" \notin DOMAIN last.request[1].params

(***************************************************************************)
(* C19.  After a successful instantiation getLayerMetadata(i) returns, for *)
(* every index i of the layer list of the response, the metadata object of *)
(* the layer at index i, unmodified (the empty object when that layer has  *)
(* none).                                                                  *)
(***************************************************************************)
C19_LayerMetadataRoundTrip ==
    ( /\ answer.query = "getLayerMetadata"
      /\ last.op = "success"
      /\ "metadata" \in DOMAIN last.response[1]
      /\ "layers" \in DOMAIN last.response[1].metadata
      /\ answer.args[1] < Len(last.response[1].metadata.layers) )
    => LET layer == last.response[1].metadata.layers[answer.args[1] + 1]
       IN  answer.result = IF "meta" \in DOMAIN layer THEN layer.meta ELSE EmptyObject

\* the response had three layers, and the metadata of the third one came
\* back for index 2
C19_Witness ==
    /\ answer.query = "getLayerMetadata"
    /\ last.op = "success"
    /\ last.response[1].layergroupid = "lg1"
    /\ answer.args = <<2>>
    /\ answer.result = [cartocss |-> "c2"]

(***************************************************************************)
(* C20.  Filter extraction: without includeFilters the params of the       *)
(* request have no filters field; with it, params.filters is present iff   *)
(* some dataview has a non-empty filter, and filters.dataviews is then the *)
(* merge of the serialized filters of exactly those dataviews in           *)
(* collection order, a later dataview overwriting the key of an earlier    *)
(* one; dataviews with no filter or an empty one contribute nothing.       *)
(***************************************************************************)
C20_FiltersExtracted ==
    (Created /\ last.request # << >> /\ answer.query = "createInstance") =>
        LET includeFilters == answer.args[1]
            dataviews      == answer.args[2]
            params         == last.request[1].params
            contributing   == {i \in 1..Len(dataviews) :
                                  /\ "filter" \in DOMAIN dataviews[i]
                                  /\ ~dataviews[i].filter.empty}
            serialized(i)  == dataviews[i].filter.json.value
            holders(k)     == {i \in contributing : k \in DOMAIN serialized(i)}
        IN  IF ~includeFilters \/ contributing = {}
            THEN "filters" \notin DOMAIN params
            ELSE /\ "filters" \in DOMAIN params
                 /\ DOMAIN params.filters = {"dataviews"}
                 /\ DOMAIN params.filters.dataviews
                        = UNION {DOMAIN serialized(i) : i \in contributing}
                 /\ \A k \in DOMAIN params.filters.dataviews :
                        \E i \in holders(k) :
                            /\ \A j \in holders(k) : j <= i
                            /\ params.filters.dataviews[k] = serialized(i)[k]

\* two dataviews serialized a filter under the same key, with a dataview
\* without filter between them, and the later one's value is in the params
C20_Witness ==
    /\ Created
    /\ last.request # << >>
    /\ answer.query = "createInstance"
    /\ answer.args[1]
    /\ Len(answer.args[2]) = 3
    /\ answer.args[2][1] = FilterDataview("a", "1")
    /\ answer.args[2][3] = FilterDataview("a", "2")
    /\ last.request[1].params.filters = [dataviews |-> [a |-> "2"]]

\* the step resolves a request in flight
IsResolution == ~IsCall /\ inflight' # inflight

(***************************************************************************)
(* C21.  The attributes and the records of the tracker change only inside  *)
(* the completion handlers: a createInstance call, whether it builds,      *)
(* passes the gate and sends, is rejected at the ceiling or fails to       *)
(* build, leaves the attributes and every count of the tracker as they     *)
(* were; the gate itself changes nothing.                                  *)
(***************************************************************************)
C21_OnlyHandlersMutate ==
    [][ /\ IsCall => /\ attrs' = attrs
                     /\ tracker' = tracker
                     /\ \A fp \in SeenFingerprints :
                            OccurrenceCount(tracker', fp) = OccurrenceCount(tracker, fp)
        /\ (attrs' # attrs \/ tracker' # tracker)
               => (IsResolution /\ last'.op \in {"success", "error"}) ]_vars

\* the fourth identical call was rejected at the ceiling while an instance is
\* held
C21_Witness ==
    /\ Rejected
    /\ "layergroupid" \in DOMAIN attrs
    /\ OccurrenceCount(tracker, LastFingerprint) = MAP_INSTANTIATION_LIMIT
    /\ nextId = MAP_INSTANTIATION_LIMIT + 1

\* the step is a createInstance call that sends nothing: a ceiling rejection
\* or a build failure
IsLocalFailure == IsCall /\ Occurs(last'.events, "instantiateMap") = 0

(***************************************************************************)
(* C23.  'instanceCreated' is triggered exactly once by the handler of     *)
(* every successful response and by nothing else: not by the handler of a  *)
(* failed response, not by a createInstance call that sends, is rejected   *)
(* at the ceiling or fails to build.  Step by step, the notifications      *)
(* triggered therefore number the successful responses resolved.           *)
(***************************************************************************)
C23_NotifiedOncePerSuccess ==
    [][ /\ (IsResolution /\ last'.op = "success")
               => /\ Occurs(last'.events, "instanceCreated") = 1
                  /\ EventsNamed(last'.events, "instanceCreated")[1].req = last'.id
        /\ (IsResolution /\ last'.op # "success")
               => Occurs(last'.events, "instanceCreated") = 0
        /\ IsCall => Occurs(last'.events, "instanceCreated") = 0 ]_vars

\* the second call made has succeeded, first for its fingerprint, and its
\* handler triggered the one notification of the step
C23_Witness ==
    /\ last.op = "success"
    /\ last.id = 2
    /\ nextId = 2
    /\ inflight = {}
    /\ OccurrenceCount(tracker, LastFingerprint) = 1
    /\ Occurs(last.events, "instanceCreated") = 1

(***************************************************************************)
(* C24.  A failed response, a ceiling rejection and a build failure leave  *)
(* the attributes exactly as they were: the layergroupid and the metadata  *)
(* of the last successful response are returned by the queries and by      *)
(* getBaseURL after the failure as before it, hence after any number of    *)
(* failures.                                                               *)
(***************************************************************************)
C24_FailuresKeepMetadata ==
    [][ (IsLocalFailure \/ (IsResolution /\ last'.op = "error"))
        => /\ attrs' = attrs
           /\ Prop(attrs', "layergroupid") = Prop(attrs, "layergroupid")
           /\ _getLayers' = _getLayers
           /\ getSupportedSubdomains' = getSupportedSubdomains
           /\ \A subhost \in Subhosts : getBaseURL(subhost)' = getBaseURL(subhost)
           /\ \A layerIndex \in LayerIndexes :
                  getLayerMetadata(layerIndex)' = getLayerMetadata(layerIndex)
           /\ \A dataviewId \in DataviewIds :
                  getDataviewMetadata(dataviewId)' = getDataviewMetadata(dataviewId) ]_vars

\* after a success with "lg2", later failed responses and then a ceiling
\* rejection, the base URL is still that of "lg2" on its CDN host and the
\* metadata of its layer is still returned
C24_Witness ==
    /\ Rejected
    /\ nextId = MAP_INSTANTIATION_LIMIT + 1
    /\ Prop(attrs, "layergroupid") = <<"lg2">>
    /\ tracker # << >>
    /\ "errors" \in DOMAIN tracker[1].lastResponse
    /\ getLayerMetadata(0) = [stats |-> "s3"]
    /\ getBaseURL(<<"1">>) = "http://1.cdn.example.com/acme/api/v1/map/lg2"

(***************************************************************************)
(* C22.  getDataviewMetadata(id) returns the entry of the direct dataviews *)
(* table of the response when that table has the id; otherwise the entry   *)
(* for the id of the last layer, in layer order, whose widgets table has   *)
(* it; otherwise undefined.  The direct table takes precedence over the    *)
(* tables of the layers.                                                   *)
(***************************************************************************)
C22_DataviewMetadataLookup ==
    ( /\ answer.query = "getDataviewMetadata"
      /\ last.op = "success"
      /\ "metadata" \in DOMAIN last.response[1] )
    => LET metadata == last.response[1].metadata
           id       == answer.args[1]
           direct   == IF "dataviews" \in DOMAIN metadata
                       THEN metadata.dataviews ELSE EmptyObject
           layers   == IF "layers" \in DOMAIN metadata THEN metadata.layers ELSE << >>
           holders  == {i \in 1..Len(layers) :
                           /\ "widgets" \in DOMAIN layers[i]
                           /\ id \in DOMAIN layers[i].widgets}
       IN  IF id \in DOMAIN direct
           THEN answer.result = <<direct[id]>>
           ELSE IF holders # {}
                THEN \E i \in holders :
                         /\ \A j \in holders : j <= i
                         /\ answer.result = <<layers[i].widgets[id]>>
                ELSE answer.result = << >>

\* the response had "w1" in its direct table and in the widgets of a layer,
\* and the entry of the direct table came back
C22_Witness ==
    /\ answer.query = "getDataviewMetadata"
    /\ last.op = "success"
    /\ last.response[1].layergroupid = "lg2"
    /\ answer.args = <<"w1">>
    /\ answer.result = << [from |-> "direct"] >>

(***************************************************************************)
(* C25.  When the client resolves a request before instantiateMap returns  *)
(* and the caller's success callback throws, the exception is handled by   *)
(* the catch block of createInstance; for one request the success path and *)
(* the error callback never both run.                                      *)
(***************************************************************************)
C25_SuccessAndErrorExclusive ==
    ~ ( /\ \/ Occurs(last.events, "set") >= 1
           \/ Occurs(last.events, "instanceCreated") >= 1
           \/ Occurs(last.events, "options.success") >= 1
        /\ Occurs(last.events, "options.error") >= 1 )

====
